---- MODULE Spec2Model ----
(***************************************************************************)
(* Session monitor of the agents service (lib/monitor.js): the polling     *)
(* tick checkSessions and the manual trigger processSession, run against   *)
(* a Firestore collection of session documents and the agent pipeline.     *)
(* Every await of the source is a suspension point, so every store call    *)
(* and every pipeline call is one atomic step and steps of different       *)
(* ticks and manual calls interleave.  start() and stop() of the monitor   *)
(* and the workflow of the agent (lib/agent.js) are modelled as well; the  *)
(* monitor is already started in the specifications that do not call them. *)
(***************************************************************************)
EXTENDS Integers, Sequences, FiniteSets, TLC

VARIABLES store, ticks, manual, now, isRunning, intervalId, timers, agent,
          lastCall

vars ==
  <<store, ticks, manual, now, isRunning, intervalId, timers, agent, lastCall>>

(***************************************************************************)
(* Bounds and program constants.                                           *)
(***************************************************************************)
\* .limit(5) of the selection query
PageLimit == 5

\* document ids in Firestore's document-name order
IdOrder == <<"S1", "S2", "S3", "S4", "S5", "S6", "S7">>

Ids == {IdOrder[i] : i \in 1..Len(IdOrder)}

Rank(id) == CHOOSE i \in 1..Len(IdOrder) : IdOrder[i] = id

\* the collection holds one document, and "S7" names no document
SingleIds == {"S1"}

\* the collection holds two documents
BatchIds == {"S1", "S2"}

\* the collection holds one document more than a page of the query
BacklogIds == {"S1", "S2", "S3", "S4", "S5", "S6"}

\* session ids handed to the manual trigger
ManualIds == {"S1", "S7"}

\* concurrently running invocations of checkSessions / processSession
Ticks == {"t1", "t2"}

Manuals == {"p1"}

\* messages of the errors the agent pipeline throws
PipelineErrors == {"rate limited"}

\* message of a failed Firestore call (network / auth)
StoreError == "store unavailable"

\* values the analysis pipeline writes to analysisCompleted
AnalysisTimes == {1, 2}

\* interval handles that can be active at once
MaxTimers == 2

\* the clock advances up to this time
MaxNow == 1

\* FRICTION_THRESHOLD when the variable is not set
DefaultThreshold == 3

\* length of HIGH_PRIORITY_KEYWORDS, and its characters
MaxKeywords == 2

KeywordChars == {"a", "B", ","}

\* length of a behaviour summary, and its characters
MaxSummary == 2

SummaryChars == {"a", "b", "A"}

\* friction points of a session
MaxFriction == 4

\* effects counted per session
MaxEffects == 2

(***************************************************************************)
(* Field values: a field that is not in the document is Absent, a field    *)
(* holding v is Val(v).                                                    *)
(***************************************************************************)
Absent == <<>>

Val(v) == <<v>>

\* values of FRICTION_THRESHOLD: not set, or the number it parses to
ThresholdSettings == {Absent, Val(2)}

\* values of HIGH_PRIORITY_KEYWORDS: not set, or a string
KeywordSettings ==
  {Absent} \cup
  {Val(k) : k \in UNION {[1..n -> KeywordChars] : n \in 0..MaxKeywords}}

\* a session document as the upload pipeline creates it; the agent fields
\* are not written by it, except that agentProcessed may be initialised
NewDoc(processed) ==
  [status                   |-> "uploaded",
   analysisCompleted        |-> Absent,
   agentProcessed           |-> processed,
   agentProcessing          |-> Absent,
   agentProcessingStarted   |-> Absent,
   agentProcessingCompleted |-> Absent,
   agentProcessingFailed    |-> Absent,
   agentProcessingError     |-> Absent,
   agentResult              |-> Absent]

\* set(fields) without {merge: true}: the document is replaced
MergeReplace(doc, fields) ==
  [f \in DOMAIN doc |->
     IF f \in DOMAIN fields THEN fields[f]
     ELSE IF f = "status" THEN "" ELSE Absent]

\* DocumentReference.update(fields): a field-level merge into the document
Merge(doc, fields) ==
  [f \in DOMAIN doc |-> IF f \in DOMAIN fields THEN fields[f] ELSE doc[f]]

\* set(fields, {merge: true}) in place of update(): creates the document
Upserted(s, id, fields) ==
  {[x \in DOMAIN s \cup {id} |->
      IF x \in DOMAIN s THEN IF x = id THEN Merge(s[x], fields) ELSE s[x]
      ELSE Merge(NewDoc(Absent), fields)]}

\* the collections a resolved update() can leave: the merged document, or
\* none when the document does not exist, because update() then rejects
Updated(s, id, fields) ==
  IF id \in DOMAIN s THEN {[s EXCEPT ![id] = Merge(@, fields)]} ELSE {}

(***************************************************************************)
(* The three writes of an attempt; `new Date()` reads the clock `now`.      *)
(***************************************************************************)
\* a claim write that also resets agentProcessed
ClaimFieldsResetProcessed ==
  [agentProcessed         |-> Val(FALSE),
   agentProcessing        |-> Val(TRUE),
   agentProcessingStarted |-> Val(now)]

ClaimFields ==
  [agentProcessing        |-> Val(TRUE),
   agentProcessingStarted |-> Val(now)]

\* the success write without the result payload
SuccessFieldsNoResult(result) ==
  [agentProcessed           |-> Val(TRUE),
   agentProcessing          |-> Val(FALSE),
   agentProcessingCompleted |-> Val(now)]

\* a success write that also stamps the start of the attempt
SuccessFieldsRestart(result) ==
  [agentProcessed           |-> Val(TRUE),
   agentProcessing          |-> Val(FALSE),
   agentProcessingStarted   |-> Val(now),
   agentProcessingCompleted |-> Val(now),
   agentResult              |-> Val(result)]

SuccessFields(result) ==
  [agentProcessed           |-> Val(TRUE),
   agentProcessing          |-> Val(FALSE),
   agentProcessingCompleted |-> Val(now),
   agentResult              |-> Val(result)]

\* a failure write that also resets agentProcessed
FailureFieldsResetProcessed(message) ==
  [agentProcessed        |-> Val(FALSE),
   agentProcessing       |-> Val(FALSE),
   agentProcessingError  |-> Val(message),
   agentProcessingFailed |-> Val(now)]

FailureFields(message) ==
  [agentProcessing       |-> Val(FALSE),
   agentProcessingError  |-> Val(message),
   agentProcessingFailed |-> Val(now)]

(***************************************************************************)
(* Error messages of processSession.                                       *)
(***************************************************************************)
NotFoundMessage(id) == "Session " \o id \o " not found"

NotCompletedMessage(id, status) ==
  "Session " \o id \o " is not completed yet (status: " \o status \o ")"

(***************************************************************************)
(* agent.processSession(sessionId): the value the workflow returns.        *)
(***************************************************************************)
PipelineResult(id, actionTaken) ==
  [sessionId |-> id, processed |-> TRUE, actionTaken |-> actionTaken]

(***************************************************************************)
(* The selection query.  Firestore's `!=` filter and every orderBy match   *)
(* only documents that contain the field; ties of the last orderBy are     *)
(* broken by document name in the same direction.                          *)
(***************************************************************************)
\* the query without its status filter
MatchesAnyStatus(doc) ==
  /\ doc.agentProcessed # Absent
  /\ doc.agentProcessed # Val(TRUE)
  /\ doc.analysisCompleted # Absent

\* a query that also leaves out the records that are claimed
MatchesUnclaimed(doc) ==
  /\ doc.status = "completed"
  /\ doc.agentProcessed # Absent
  /\ doc.agentProcessed # Val(TRUE)
  /\ doc.analysisCompleted # Absent
  /\ doc.agentProcessing # Val(TRUE)

Matches(doc) ==
  /\ doc.status = "completed"
  /\ doc.agentProcessed # Absent
  /\ doc.agentProcessed # Val(TRUE)
  /\ doc.analysisCompleted # Absent

BoolOrder(b) == IF b THEN 1 ELSE 0

Before(s, a, b) ==
  LET pa == BoolOrder(s[a].agentProcessed[1])
      pb == BoolOrder(s[b].agentProcessed[1])
      ta == s[a].analysisCompleted[1]
      tb == s[b].analysisCompleted[1]
  IN  IF pa # pb THEN pa < pb
      ELSE IF ta # tb THEN ta > tb
      ELSE Rank(a) > Rank(b)

RECURSIVE Ordered(_, _)
Ordered(s, S) ==
  IF S = {} THEN <<>>
  ELSE LET first == CHOOSE a \in S : \A b \in S \ {a} : Before(s, a, b)
       IN  <<first>> \o Ordered(s, S \ {first})

Limit(seq, n) == SubSeq(seq, 1, IF Len(seq) < n THEN Len(seq) ELSE n)

Selector(s) ==
  Limit(Ordered(s, {id \in DOMAIN s : Matches(s[id])}), PageLimit)

(***************************************************************************)
(* State of one invocation of checkSessions and of processSession.         *)
(***************************************************************************)
IdleTick ==
  [pc |-> "idle", docs |-> <<>>, i |-> 0, claimed |-> FALSE,
   result |-> Absent, error |-> Absent]

IdleManual ==
  [pc |-> "idle", sessionId |-> Absent, claimed |-> FALSE,
   result |-> Absent, error |-> Absent, recorded |-> FALSE,
   outcome |-> "none"]

\* without the outer try / catch the rejection leaves checkSessions
OuterCatchRethrow(t) == [IdleTick EXCEPT !.pc = "rejected"]

\* the outer catch of checkSessions logs the error and the tick ends
OuterCatch(t) == IdleTick

\* a loop that stops at the first candidate
NextCandidateStop(t) == IdleTick

\* the for loop moves to the next document of the snapshot, or the tick ends
NextCandidate(t) ==
  IF t.i < Len(t.docs)
  THEN [IdleTick EXCEPT !.pc = "claim", !.docs = t.docs, !.i = t.i + 1]
  ELSE IdleTick

\* the workflow of the agent is not running; issues and messages count the
\* effects of one run, issuesCreated and messagesSent those of all runs for
\* the session (up to MaxEffects)
IdleAgent ==
  [pc |-> "idle", keywords |-> Absent, threshold |-> Absent,
   frictionPoints |-> 0, behaviorSummary |-> <<>>, analysis |-> Absent,
   githubIssue |-> Absent, issues |-> 0, messages |-> 0,
   issuesCreated |-> 0, messagesSent |-> 0]

\* one more effect for the session
Counted(n) == IF n < MaxEffects THEN n + 1 ELSE n

\* the monitor before start(): the fields of the sessionMonitor object
Stopped ==
  /\ isRunning = FALSE
  /\ intervalId = Absent
  /\ timers = {}
  /\ lastCall = "none"

\* the monitor as index.js leaves it: start() has been called once
Started ==
  /\ isRunning = TRUE
  /\ intervalId = Val(1)
  /\ timers = {1}
  /\ lastCall = "started"

Init ==
  /\ store \in [SingleIds -> {NewDoc(Absent), NewDoc(Val(FALSE))}]
  /\ ticks = [t \in Ticks |-> IdleTick]
  /\ manual = [m \in Manuals |-> IdleManual]
  /\ Started
  /\ now = 0
  /\ agent = IdleAgent

(***************************************************************************)
(* Environment: the upload / analysis pipeline, which owns `status` and    *)
(* the analysis fields.                                                    *)
(***************************************************************************)
AnalysisStart(id) ==
  /\ store[id].status \in {"uploaded", "completed", "failed"}
  /\ store' \in Updated(store, id, [status |-> "processing"])
  /\ UNCHANGED <<ticks, manual, now, isRunning, intervalId, timers, agent, lastCall>>

AnalysisComplete(id, time) ==
  /\ store[id].status = "processing"
  /\ store' \in Updated(store, id, [status |-> "completed",
                                    analysisCompleted |-> Val(time)])
  /\ UNCHANGED <<ticks, manual, now, isRunning, intervalId, timers, agent, lastCall>>

AnalysisFail(id) ==
  /\ store[id].status = "processing"
  /\ store' \in Updated(store, id, [status |-> "failed"])
  /\ UNCHANGED <<ticks, manual, now, isRunning, intervalId, timers, agent, lastCall>>

(***************************************************************************)
(* checkSessions: one tick.  Each await is one step; a step named          *)
(* ...Rejected is the awaited Firestore call failing.                      *)
(***************************************************************************)
\* the document the for loop is at
Candidate(t) == ticks[t].docs[ticks[t].i]

\* an interval that fires although it has been cleared
TickBeginCleared(t) ==
  /\ ticks[t].pc = "idle"
  /\ ticks' = [ticks EXCEPT ![t].pc = "query"]
  /\ UNCHANGED <<store, manual, now, isRunning, intervalId, timers, agent,
                 lastCall>>

\* a timer of setInterval fires and invokes checkSessions
TickBegin(t) ==
  /\ timers # {}
  /\ ticks[t].pc = "idle"
  /\ ticks' = [ticks EXCEPT ![t].pc = "query"]
  /\ UNCHANGED <<store, manual, now, isRunning, intervalId, timers, agent, lastCall>>

\* await ...limit(5).get() resolves; an empty snapshot ends the tick
TickQueryOk(t) ==
  /\ ticks[t].pc = "query"
  /\ LET docs == Selector(store)
     IN  ticks' = [ticks EXCEPT ![t] =
                     IF docs = <<>> THEN IdleTick
                     ELSE [IdleTick EXCEPT !.pc = "claim",
                                           !.docs = docs, !.i = 1]]
  /\ UNCHANGED <<store, manual, now, isRunning, intervalId, timers, agent, lastCall>>

\* the query rejects: the outer catch logs and the tick ends
TickQueryRejected(t) ==
  /\ ticks[t].pc = "query"
  /\ ticks' = [ticks EXCEPT ![t] = OuterCatch(ticks[t])]
  /\ UNCHANGED <<store, manual, now, isRunning, intervalId, timers, agent, lastCall>>

\* await doc.ref.update({agentProcessing: true, ...})
TickClaimOk(t) ==
  /\ ticks[t].pc = "claim"
  /\ store' \in Updated(store, Candidate(t), ClaimFields)
  /\ ticks' = [ticks EXCEPT ![t].pc = "pipeline", ![t].claimed = TRUE]
  /\ UNCHANGED <<manual, now, isRunning, intervalId, timers, agent, lastCall>>

\* a claim write that is not awaited: its rejection does not stop the attempt
TickClaimRejectedIgnored(t) ==
  /\ ticks[t].pc = "claim"
  /\ ticks' = [ticks EXCEPT ![t].pc = "pipeline"]
  /\ UNCHANGED <<store, manual, now, isRunning, intervalId, timers, agent,
                 lastCall>>

TickClaimRejected(t) ==
  /\ ticks[t].pc = "claim"
  /\ ticks' = [ticks EXCEPT ![t].pc = "recordFailure",
                            ![t].error = Val(StoreError)]
  /\ UNCHANGED <<store, manual, now, isRunning, intervalId, timers, agent, lastCall>>

\* await agent.processSession(sessionId) resolves
TickPipelineReturn(t, actionTaken) ==
  /\ ticks[t].pc = "pipeline"
  /\ ticks' = [ticks EXCEPT
       ![t].pc = "recordSuccess",
       ![t].result = Val(PipelineResult(Candidate(t), actionTaken))]
  /\ UNCHANGED <<store, manual, now, isRunning, intervalId, timers, agent, lastCall>>

\* await agent.processSession(sessionId) rejects
TickPipelineThrow(t, message) ==
  /\ ticks[t].pc = "pipeline"
  /\ ticks' = [ticks EXCEPT ![t].pc = "recordFailure",
                            ![t].error = Val(message)]
  /\ UNCHANGED <<store, manual, now, isRunning, intervalId, timers, agent, lastCall>>

\* await doc.ref.update({agentProcessed: true, ...})
TickRecordSuccessOk(t) ==
  /\ ticks[t].pc = "recordSuccess"
  /\ store' \in Updated(store, Candidate(t), SuccessFields(ticks[t].result[1]))
  /\ ticks' = [ticks EXCEPT ![t] = NextCandidate(@)]
  /\ UNCHANGED <<manual, now, isRunning, intervalId, timers, agent, lastCall>>

TickRecordSuccessRejected(t) ==
  /\ ticks[t].pc = "recordSuccess"
  /\ ticks' = [ticks EXCEPT ![t].pc = "recordFailure",
                            ![t].error = Val(StoreError)]
  /\ UNCHANGED <<store, manual, now, isRunning, intervalId, timers, agent, lastCall>>

\* the inner catch: await doc.ref.update({agentProcessing: false, ...})
TickRecordFailureOk(t) ==
  /\ ticks[t].pc = "recordFailure"
  /\ store' \in Updated(store, Candidate(t), FailureFields(ticks[t].error[1]))
  /\ ticks' = [ticks EXCEPT ![t] = NextCandidate(@)]
  /\ UNCHANGED <<manual, now, isRunning, intervalId, timers, agent, lastCall>>

\* the update of the inner catch rejects: the outer catch ends the tick
TickRecordFailureRejected(t) ==
  /\ ticks[t].pc = "recordFailure"
  /\ ticks' = [ticks EXCEPT ![t] = OuterCatch(ticks[t])]
  /\ UNCHANGED <<store, manual, now, isRunning, intervalId, timers, agent, lastCall>>

(***************************************************************************)
(* processSession: the manual trigger.                                     *)
(***************************************************************************)
SessionId(m) == manual[m].sessionId[1]

ManualCall(m, id) ==
  /\ manual[m].pc = "idle"
  /\ manual' = [manual EXCEPT ![m] =
                  [IdleManual EXCEPT !.pc = "get", !.sessionId = Val(id)]]
  /\ UNCHANGED <<store, ticks, now, isRunning, intervalId, timers, agent, lastCall>>

\* a lookup that checks that the record exists, but not its status
ManualGetOkAnyStatus(m) ==
  /\ manual[m].pc = "get"
  /\ LET id == SessionId(m)
     IN  manual' = [manual EXCEPT
           ![m].pc = IF id \in DOMAIN store THEN "claim" ELSE "catch",
           ![m].error = IF id \notin DOMAIN store
                        THEN Val(NotFoundMessage(id)) ELSE Absent]
  /\ UNCHANGED <<store, ticks, now, isRunning, intervalId, timers, agent,
                 lastCall>>

\* await sessionRef.get() resolves, then the two precondition checks
ManualGetOk(m) ==
  /\ manual[m].pc = "get"
  /\ LET id == SessionId(m)
     IN  manual' = [manual EXCEPT
           ![m].pc = IF id \in DOMAIN store /\ store[id].status = "completed"
                     THEN "claim" ELSE "catch",
           ![m].error =
              IF id \notin DOMAIN store THEN Val(NotFoundMessage(id))
              ELSE IF store[id].status # "completed"
              THEN Val(NotCompletedMessage(id, store[id].status))
              ELSE Absent]
  /\ UNCHANGED <<store, ticks, now, isRunning, intervalId, timers, agent, lastCall>>

ManualGetRejected(m) ==
  /\ manual[m].pc = "get"
  /\ manual' = [manual EXCEPT ![m].pc = "catch",
                              ![m].error = Val(StoreError)]
  /\ UNCHANGED <<store, ticks, now, isRunning, intervalId, timers, agent, lastCall>>

\* await sessionRef.update({agentProcessing: true, ...})
ManualClaimOk(m) ==
  /\ manual[m].pc = "claim"
  /\ store' \in Updated(store, SessionId(m), ClaimFields)
  /\ manual' = [manual EXCEPT ![m].pc = "pipeline", ![m].claimed = TRUE]
  /\ UNCHANGED <<ticks, now, isRunning, intervalId, timers, agent, lastCall>>

ManualClaimRejected(m) ==
  /\ manual[m].pc = "claim"
  /\ manual' = [manual EXCEPT ![m].pc = "catch",
                              ![m].error = Val(StoreError)]
  /\ UNCHANGED <<store, ticks, now, isRunning, intervalId, timers, agent, lastCall>>

ManualPipelineReturn(m, actionTaken) ==
  /\ manual[m].pc = "pipeline"
  /\ manual' = [manual EXCEPT
       ![m].pc = "recordSuccess",
       ![m].result = Val(PipelineResult(SessionId(m), actionTaken))]
  /\ UNCHANGED <<store, ticks, now, isRunning, intervalId, timers, agent, lastCall>>

ManualPipelineThrow(m, message) ==
  /\ manual[m].pc = "pipeline"
  /\ manual' = [manual EXCEPT ![m].pc = "catch",
                              ![m].error = Val(message)]
  /\ UNCHANGED <<store, ticks, now, isRunning, intervalId, timers, agent, lastCall>>

\* await sessionRef.update({agentProcessed: true, ...}); return result
ManualRecordSuccessOk(m) ==
  /\ manual[m].pc = "recordSuccess"
  /\ store' \in Updated(store, SessionId(m),
                        SuccessFields(manual[m].result[1]))
  /\ manual' = [manual EXCEPT ![m].pc = "done", ![m].claimed = FALSE,
                              ![m].outcome = "returned"]
  /\ UNCHANGED <<ticks, now, isRunning, intervalId, timers, agent, lastCall>>

ManualRecordSuccessRejected(m) ==
  /\ manual[m].pc = "recordSuccess"
  /\ manual' = [manual EXCEPT ![m].pc = "catch",
                              ![m].error = Val(StoreError)]
  /\ UNCHANGED <<store, ticks, now, isRunning, intervalId, timers, agent, lastCall>>

\* the catch block: the failure write, then `throw error`
ManualCatchOk(m) ==
  /\ manual[m].pc = "catch"
  /\ store' \in Updated(store, SessionId(m),
                        FailureFields(manual[m].error[1]))
  /\ manual' = [manual EXCEPT ![m].pc = "done", ![m].claimed = FALSE,
                              ![m].recorded = TRUE,
                              ![m].outcome = "raised"]
  /\ UNCHANGED <<ticks, now, isRunning, intervalId, timers, agent, lastCall>>

\* a catch block without the inner try: the error of the write is raised
ManualCatchRejectedReplaces(m) ==
  /\ manual[m].pc = "catch"
  /\ manual' = [manual EXCEPT ![m].pc = "done", ![m].claimed = FALSE,
                              ![m].outcome = "raised",
                              ![m].error = Val(StoreError)]
  /\ UNCHANGED <<store, ticks, now, isRunning, intervalId, timers, agent,
                 lastCall>>

\* the failure write rejects: the inner catch logs, then `throw error`
ManualCatchRejected(m) ==
  /\ manual[m].pc = "catch"
  /\ manual' = [manual EXCEPT ![m].pc = "done", ![m].claimed = FALSE,
                              ![m].outcome = "raised"]
  /\ UNCHANGED <<store, ticks, now, isRunning, intervalId, timers, agent, lastCall>>

\* the caller has received the value or the error
ManualDone(m) ==
  /\ manual[m].pc = "done"
  /\ manual' = [manual EXCEPT ![m] = IdleManual]
  /\ UNCHANGED <<store, ticks, now, isRunning, intervalId, timers, agent, lastCall>>

(***************************************************************************)
(* start() and stop() of the monitor.  Each is synchronous, so each is one *)
(* step.  `timers` holds the handles of the intervals that are active;     *)
(* lastCall is what the last call of start() or stop() did.                *)
(***************************************************************************)
\* the handle setInterval returns: one that is not in use
NewTimer == CHOOSE h \in 1..MaxTimers : h \notin timers

\* start() without the isRunning guard
StartUnguarded ==
  /\ Cardinality(timers) < MaxTimers
  /\ \E t \in Ticks :
       /\ ticks[t].pc = "idle"
       /\ ticks' = [ticks EXCEPT ![t].pc = "query"]
  /\ isRunning' = TRUE
  /\ intervalId' = Val(NewTimer)
  /\ timers' = timers \cup {NewTimer}
  /\ lastCall' = "started"
  /\ UNCHANGED <<store, manual, now, agent>>

\* start(): returns at once when running; otherwise sets isRunning, invokes
\* checkSessions (which runs up to its first await) and sets the interval
Start ==
  IF isRunning
  THEN /\ lastCall' = "already running"
       /\ UNCHANGED <<store, ticks, manual, now, isRunning, intervalId,
                      timers, agent>>
  ELSE /\ Cardinality(timers) < MaxTimers
       /\ \E t \in Ticks :
            /\ ticks[t].pc = "idle"
            /\ ticks' = [ticks EXCEPT ![t].pc = "query"]
       /\ isRunning' = TRUE
       /\ intervalId' = Val(NewTimer)
       /\ timers' = timers \cup {NewTimer}
       /\ lastCall' = "started"
       /\ UNCHANGED <<store, manual, now, agent>>

\* a stop() that clears the interval but keeps the handle
StopKeepsHandle ==
  IF intervalId # Absent
  THEN /\ timers' = timers \ {intervalId[1]}
       /\ isRunning' = FALSE
       /\ lastCall' = "stopped"
       /\ UNCHANGED <<store, ticks, manual, now, intervalId, agent>>
  ELSE /\ lastCall' = "not running"
       /\ UNCHANGED <<store, ticks, manual, now, isRunning, intervalId,
                      timers, agent>>

\* a stop() that dereferences the interval handle without the guard
StopRaises ==
  IF intervalId # Absent
  THEN /\ timers' = timers \ {intervalId[1]}
       /\ intervalId' = Absent
       /\ isRunning' = FALSE
       /\ lastCall' = "stopped"
       /\ UNCHANGED <<store, ticks, manual, now, agent>>
  ELSE /\ lastCall' = "raised"
       /\ UNCHANGED <<store, ticks, manual, now, isRunning, intervalId,
                      timers, agent>>

\* a stop() that also abandons the ticks in flight
StopCancelsTicks ==
  IF intervalId # Absent
  THEN /\ timers' = timers \ {intervalId[1]}
       /\ intervalId' = Absent
       /\ isRunning' = FALSE
       /\ lastCall' = "stopped"
       /\ ticks' = [t \in Ticks |-> IdleTick]
       /\ UNCHANGED <<store, manual, now, agent>>
  ELSE /\ lastCall' = "not running"
       /\ UNCHANGED <<store, ticks, manual, now, isRunning, intervalId,
                      timers, agent>>

\* stop(): clears the interval when there is one, and does nothing otherwise
Stop ==
  IF intervalId # Absent
  THEN /\ timers' = timers \ {intervalId[1]}
       /\ intervalId' = Absent
       /\ isRunning' = FALSE
       /\ lastCall' = "stopped"
       /\ UNCHANGED <<store, ticks, manual, now, agent>>
  ELSE /\ lastCall' = "not running"
       /\ UNCHANGED <<store, ticks, manual, now, isRunning, intervalId,
                      timers, agent>>

\* time passes between two steps
ClockAdvance ==
  /\ now < MaxNow
  /\ now' = now + 1
  /\ UNCHANGED <<store, ticks, manual, isRunning, intervalId, timers, agent,
                 lastCall>>

(***************************************************************************)
(* The agent workflow (lib/agent.js).  A string is a sequence of           *)
(* characters.                                                             *)
(***************************************************************************)
Strings(chars, n) == UNION {[1..k -> chars] : k \in 0..n}

\* String.prototype.toLowerCase
LowerChar(c) == CASE c = "A" -> "a" [] c = "B" -> "b" [] OTHER -> c

ToLowerCase(s) == [i \in 1..Len(s) |-> LowerChar(s[i])]

\* String.prototype.includes: the empty string is included in every string
Includes(s, k) ==
  \E i \in 1..(Len(s) - Len(k) + 1) : SubSeq(s, i, i + Len(k) - 1) = k

\* String.prototype.split(','): a string without a comma is one item
RECURSIVE Split(_)
Split(s) ==
  IF \A i \in 1..Len(s) : s[i] # ","
  THEN <<s>>
  ELSE LET i == CHOOSE j \in 1..Len(s) :
                  s[j] = "," /\ \A k \in 1..(j - 1) : s[k] # ","
       IN  <<SubSeq(s, 1, i - 1)>> \o Split(SubSeq(s, i + 1, Len(s)))

\* (process.env.HIGH_PRIORITY_KEYWORDS || '').split(',')
HighPriorityKeywords(env) == Split(IF env = Absent THEN <<>> ELSE env[1])

HasHighPriority(env, behaviorSummary) ==
  LET keywords == HighPriorityKeywords(env)
  IN  \E i \in 1..Len(keywords) :
        Includes(ToLowerCase(behaviorSummary), ToLowerCase(keywords[i]))

\* parseInt(process.env.FRICTION_THRESHOLD || '3')
Threshold(env) == IF env = Absent THEN DefaultThreshold ELSE env[1]

\* the tool analyzeFriction
AnalyzeFriction(a) ==
  LET exceedsThreshold == a.frictionPoints >= Threshold(a.threshold)
      hasHighPriority  == HasHighPriority(a.keywords, a.behaviorSummary)
  IN  [total            |-> a.frictionPoints,
       exceedsThreshold |-> exceedsThreshold,
       hasHighPriority  |-> hasHighPriority,
       actionRequired   |-> exceedsThreshold \/ hasHighPriority]

\* a workflow that notifies Slack only with an issue
AfterCompareNotifyOnAction(actionRequired) ==
  IF actionRequired THEN "issue" ELSE "returned"

\* step 5 is taken when action is required, step 6 always
AfterCompare(actionRequired) == IF actionRequired THEN "issue" ELSE "slack"

\* the value the workflow returns
WorkflowResult(a) ==
  [sessionId   |-> "S1",
   processed   |-> TRUE,
   actionTaken |-> a.analysis[1].actionRequired,
   githubIssue |-> a.githubIssue]

\* agent.processSession(sessionId) is called; the environment stays
WorkflowCall ==
  /\ agent.pc \in {"idle", "returned", "threw"}
  /\ agent' = [IdleAgent EXCEPT !.pc = "fetch",
                                !.keywords = agent.keywords,
                                !.threshold = agent.threshold,
                                !.issuesCreated = agent.issuesCreated,
                                !.messagesSent = agent.messagesSent]
  /\ UNCHANGED <<store, ticks, manual, now, isRunning, intervalId, timers,
                 lastCall>>

\* step 1: the backend answers with the session
FetchSessionData(n, summary) ==
  /\ agent.pc = "fetch"
  /\ agent' = [agent EXCEPT !.pc = "analyze", !.frictionPoints = n,
                            !.behaviorSummary = summary]
  /\ UNCHANGED <<store, ticks, manual, now, isRunning, intervalId, timers,
                 lastCall>>

\* step 2
Analyze ==
  /\ agent.pc = "analyze"
  /\ agent' = [agent EXCEPT !.pc = "store",
                            !.analysis = Val(AnalyzeFriction(agent))]
  /\ UNCHANGED <<store, ticks, manual, now, isRunning, intervalId, timers,
                 lastCall>>

\* step 3
StoreInBasic ==
  /\ agent.pc = "store"
  /\ agent' = [agent EXCEPT !.pc = "compare"]
  /\ UNCHANGED <<store, ticks, manual, now, isRunning, intervalId, timers,
                 lastCall>>

\* step 4, and the test of step 5
CompareWithHistory ==
  /\ agent.pc = "compare"
  /\ agent' = [agent EXCEPT
                 !.pc = AfterCompare(agent.analysis[1].actionRequired)]
  /\ UNCHANGED <<store, ticks, manual, now, isRunning, intervalId, timers,
                 lastCall>>

\* step 5: composio.github.createIssue resolves
CreateGitHubIssue ==
  /\ agent.pc = "issue"
  /\ agent' = [agent EXCEPT !.pc = "slack", !.issues = @ + 1,
                            !.issuesCreated = Counted(@),
                            !.githubIssue = Val(agent.issues + 1)]
  /\ UNCHANGED <<store, ticks, manual, now, isRunning, intervalId, timers,
                 lastCall>>

\* step 6: composio.slack.sendMessage resolves and the workflow returns
SendSlackNotification ==
  /\ agent.pc = "slack"
  /\ agent' = [agent EXCEPT !.pc = "returned", !.messages = @ + 1,
                            !.messagesSent = Counted(@)]
  /\ UNCHANGED <<store, ticks, manual, now, isRunning, intervalId, timers,
                 lastCall>>

\* an awaited tool rejects: the catch logs the error and rethrows it
ToolThrows ==
  /\ agent.pc \in {"fetch", "store", "compare", "issue", "slack"}
  /\ agent' = [agent EXCEPT !.pc = "threw"]
  /\ UNCHANGED <<store, ticks, manual, now, isRunning, intervalId, timers,
                 lastCall>>

(***************************************************************************)
(* The process is killed and restarted: the invocations in flight are      *)
(* gone, the records stay, and index.js starts the monitor again.          *)
(***************************************************************************)
Crash ==
  /\ \E t \in Ticks : ticks[t].pc # "idle"
  /\ ticks' = [t \in Ticks |-> IdleTick]
  /\ manual' = [m \in Manuals |-> IdleManual]
  /\ isRunning' = TRUE
  /\ intervalId' = Val(1)
  /\ timers' = {1}
  /\ lastCall' = "started"
  /\ UNCHANGED <<store, now, agent>>

(***************************************************************************)
(* The pipeline call of a tick carried out by the workflow of the agent.   *)
(***************************************************************************)
\* agent.processSession(sessionId) is called by the tick
TickPipelineInvoke(t) ==
  /\ ticks[t].pc = "pipeline"
  /\ agent.pc = "idle"
  /\ agent' = [IdleAgent EXCEPT !.pc = "fetch",
                                !.keywords = agent.keywords,
                                !.threshold = agent.threshold,
                                !.issuesCreated = agent.issuesCreated,
                                !.messagesSent = agent.messagesSent]
  /\ UNCHANGED <<store, ticks, manual, now, isRunning, intervalId, timers,
                 lastCall>>

\* the workflow has returned: the await of the tick resolves
TickPipelineResolves(t) ==
  /\ ticks[t].pc = "pipeline"
  /\ agent.pc = "returned"
  /\ ticks' = [ticks EXCEPT
       ![t].pc = "recordSuccess",
       ![t].result = Val(PipelineResult(Candidate(t),
                                        agent.analysis[1].actionRequired))]
  /\ agent' = [agent EXCEPT !.pc = "idle"]
  /\ UNCHANGED <<store, manual, now, isRunning, intervalId, timers, lastCall>>

\* the workflow has thrown: the await of the tick rejects
TickPipelineRejects(t, message) ==
  /\ ticks[t].pc = "pipeline"
  /\ agent.pc = "threw"
  /\ ticks' = [ticks EXCEPT ![t].pc = "recordFailure",
                            ![t].error = Val(message)]
  /\ agent' = [agent EXCEPT !.pc = "idle"]
  /\ UNCHANGED <<store, manual, now, isRunning, intervalId, timers, lastCall>>

(***************************************************************************)
(* Specifications.                                                         *)
(***************************************************************************)
Environment ==
  \/ \E id \in DOMAIN store : AnalysisStart(id)
  \/ \E id \in DOMAIN store, time \in AnalysisTimes : AnalysisComplete(id, time)
  \/ \E id \in DOMAIN store : AnalysisFail(id)

TickStep(t) ==
  \/ TickBegin(t)
  \/ TickQueryOk(t)
  \/ TickQueryRejected(t)
  \/ TickClaimOk(t)
  \/ TickClaimRejected(t)
  \/ \E a \in BOOLEAN : TickPipelineReturn(t, a)
  \/ \E e \in PipelineErrors : TickPipelineThrow(t, e)
  \/ TickRecordSuccessOk(t)
  \/ TickRecordSuccessRejected(t)
  \/ TickRecordFailureOk(t)
  \/ TickRecordFailureRejected(t)

ManualStep(m) ==
  \/ \E id \in ManualIds : ManualCall(m, id)
  \/ ManualGetOk(m)
  \/ ManualGetRejected(m)
  \/ ManualClaimOk(m)
  \/ ManualClaimRejected(m)
  \/ \E a \in BOOLEAN : ManualPipelineReturn(m, a)
  \/ \E e \in PipelineErrors : ManualPipelineThrow(m, e)
  \/ ManualRecordSuccessOk(m)
  \/ ManualRecordSuccessRejected(m)
  \/ ManualCatchOk(m)
  \/ ManualCatchRejected(m)
  \/ ManualDone(m)

\* one document; two overlapping ticks and a manual trigger
Next ==
  \/ Environment
  \/ \E t \in Ticks : TickStep(t)
  \/ \E m \in Manuals : ManualStep(m)

Spec == Init /\ [][Next]_vars

\* two documents; the ticks of one monitor, one after the other
InitBatch ==
  /\ store \in [BatchIds -> {NewDoc(Absent), NewDoc(Val(FALSE))}]
  /\ ticks = [t \in Ticks |-> IdleTick]
  /\ manual = [m \in Manuals |-> IdleManual]
  /\ Started
  /\ now = 0
  /\ agent = IdleAgent

NextBatch ==
  \/ Environment
  \/ TickStep("t1")

SpecBatch == InitBatch /\ [][NextBatch]_vars

\* a backlog: six records analysed and waiting, "S1" analysed first; the
\* ticks of one monitor, one after the other
BacklogDoc(time) ==
  [NewDoc(Val(FALSE)) EXCEPT !.status = "completed",
                             !.analysisCompleted = Val(time)]

InitBacklog ==
  /\ store = [id \in BacklogIds |->
                IF id = "S1" THEN BacklogDoc(1) ELSE BacklogDoc(2)]
  /\ ticks = [t \in Ticks |-> IdleTick]
  /\ manual = [m \in Manuals |-> IdleManual]
  /\ Started
  /\ now = 0
  /\ agent = IdleAgent

\* the store accepts every call of these ticks
NextBacklog ==
  \/ TickBegin("t1")
  \/ TickQueryOk("t1")
  \/ TickClaimOk("t1")
  \/ TickPipelineReturn("t1", TRUE)
  \/ \E e \in PipelineErrors : TickPipelineThrow("t1", e)
  \/ TickRecordSuccessOk("t1")
  \/ TickRecordFailureOk("t1")

\* the timer keeps firing and every awaited call settles
FairBacklog == WF_vars(NextBacklog)

SpecBacklog == InitBacklog /\ [][NextBacklog]_vars /\ FairBacklog

\* one record analysed and waiting; the monitor is started and stopped
InitLifecycle ==
  /\ store = [id \in SingleIds |-> BacklogDoc(1)]
  /\ ticks = [t \in Ticks |-> IdleTick]
  /\ manual = [m \in Manuals |-> IdleManual]
  /\ Stopped
  /\ now = 0
  /\ agent = IdleAgent

\* the steps of a tick after checkSessions has been invoked
TickProgress(t) ==
  \/ TickQueryOk(t)
  \/ TickQueryRejected(t)
  \/ TickClaimOk(t)
  \/ TickClaimRejected(t)
  \/ \E a \in BOOLEAN : TickPipelineReturn(t, a)
  \/ \E e \in PipelineErrors : TickPipelineThrow(t, e)
  \/ TickRecordSuccessOk(t)
  \/ TickRecordSuccessRejected(t)
  \/ TickRecordFailureOk(t)
  \/ TickRecordFailureRejected(t)

NextLifecycle ==
  \/ Start
  \/ Stop
  \/ \E t \in Ticks : TickBegin(t)
  \/ \E t \in Ticks : TickProgress(t)

\* every awaited call of a tick settles
FairLifecycle == \A t \in Ticks : WF_vars(TickProgress(t))

SpecLifecycle == InitLifecycle /\ [][NextLifecycle]_vars /\ FairLifecycle

\* one record analysed and waiting; two overlapping ticks while time passes
InitClock ==
  /\ store = [id \in SingleIds |-> BacklogDoc(1)]
  /\ ticks = [t \in Ticks |-> IdleTick]
  /\ manual = [m \in Manuals |-> IdleManual]
  /\ Started
  /\ now = 0
  /\ agent = IdleAgent

NextClock ==
  \/ ClockAdvance
  \/ \E t \in Ticks : TickStep(t)

SpecClock == InitClock /\ [][NextClock]_vars

\* the workflow of the agent, called directly (webhook, /process/:sessionId)
InitWorkflow ==
  /\ store = [id \in SingleIds |-> BacklogDoc(1)]
  /\ ticks = [t \in Ticks |-> IdleTick]
  /\ manual = [m \in Manuals |-> IdleManual]
  /\ Stopped
  /\ now = 0
  /\ agent \in {[IdleAgent EXCEPT !.keywords = k, !.threshold = th] :
                  k \in KeywordSettings, th \in ThresholdSettings}

NextWorkflow ==
  \/ WorkflowCall
  \/ \E n \in 0..MaxFriction, summary \in Strings(SummaryChars, MaxSummary) :
       FetchSessionData(n, summary)
  \/ Analyze
  \/ StoreInBasic
  \/ CompareWithHistory
  \/ CreateGitHubIssue
  \/ SendSlackNotification
  \/ ToolThrows

SpecWorkflow == InitWorkflow /\ [][NextWorkflow]_vars

\* two records analysed and waiting; the ticks of one monitor, one after the
\* other, and the process may be killed and restarted
InitCrash ==
  /\ store = [id \in BatchIds |-> BacklogDoc(1)]
  /\ ticks = [t \in Ticks |-> IdleTick]
  /\ manual = [m \in Manuals |-> IdleManual]
  /\ Started
  /\ now = 0
  /\ agent = IdleAgent

NextCrash ==
  \/ Crash
  \/ TickStep("t1")

SpecCrash == InitCrash /\ [][NextCrash]_vars

\* one record analysed and waiting; the ticks of one monitor, one after the
\* other, with the workflow of the agent as the pipeline; one keyword is
\* configured
InitEffects ==
  /\ store = [id \in SingleIds |-> BacklogDoc(1)]
  /\ ticks = [t \in Ticks |-> IdleTick]
  /\ manual = [m \in Manuals |-> IdleManual]
  /\ Started
  /\ now = 0
  /\ agent = [IdleAgent EXCEPT !.keywords = Val(<<"a">>)]

NextEffects ==
  \/ TickBegin("t1")
  \/ TickQueryOk("t1")
  \/ TickQueryRejected("t1")
  \/ TickClaimOk("t1")
  \/ TickClaimRejected("t1")
  \/ TickPipelineInvoke("t1")
  \/ \E n \in {0, DefaultThreshold}, summary \in Strings(SummaryChars, 1) :
       FetchSessionData(n, summary)
  \/ Analyze
  \/ StoreInBasic
  \/ CompareWithHistory
  \/ CreateGitHubIssue
  \/ SendSlackNotification
  \/ ToolThrows
  \/ TickPipelineResolves("t1")
  \/ \E e \in PipelineErrors : TickPipelineRejects("t1", e)
  \/ TickRecordSuccessOk("t1")
  \/ TickRecordSuccessRejected("t1")
  \/ TickRecordFailureOk("t1")
  \/ TickRecordFailureRejected("t1")

SpecEffects == InitEffects /\ [][NextEffects]_vars

(***************************************************************************)
(* Properties.                                                             *)
(***************************************************************************)
\* the attempts between their claim write and their outcome write for id
Holders(id) ==
  {t \in Ticks : ticks[t].claimed /\ Candidate(t) = id}
    \cup {m \in Manuals : manual[m].claimed /\ SessionId(m) = id}

\* C1: at any time at most one attempt (tick or manual processSession) is
\* between its claim write and its outcome write for a given record.
C1_ExclusiveClaim ==
  \A id \in DOMAIN store : Cardinality(Holders(id)) <= 1

\* C2 as stated: in every reachable state a record with agentProcessed =
\* true has agentProcessing = false and an agentResult.
C2_ProcessedImpliesReleased ==
  \A id \in DOMAIN store :
    store[id].agentProcessed = Val(TRUE)
      => /\ store[id].agentProcessing = Val(FALSE)
         /\ store[id].agentResult # Absent

\* C2 amended: a record with agentProcessed = true always has an
\* agentResult and a completion date, and the write that sets agentProcessed
\* sets agentProcessing = false; a later or overlapping attempt may set
\* agentProcessing to true again.
C2_ProcessedHasResult ==
  /\ [](\A id \in DOMAIN store :
          store[id].agentProcessed = Val(TRUE)
            => /\ store[id].agentResult # Absent
               /\ store[id].agentProcessingCompleted # Absent
               /\ store[id].agentProcessing # Absent)
  /\ [][\A id \in DOMAIN store :
          (store[id].agentProcessed # Val(TRUE)
             /\ store'[id].agentProcessed = Val(TRUE))
            => store'[id].agentProcessing = Val(FALSE)]_vars

C2_Witness ==
  \E id \in DOMAIN store :
    /\ store[id].agentProcessed = Val(TRUE)
    /\ store[id].agentProcessing = Val(TRUE)
    /\ store[id].agentResult # Absent

\* the step in which a tick's success write is accepted by the store
TickSucceeded(t) ==
  /\ ticks[t].pc = "recordSuccess"
  /\ ticks'[t].pc \in {"claim", "idle"}

\* the step in which processSession's success write is accepted; it returns
ManualReturned(m) ==
  /\ manual[m].pc = "recordSuccess"
  /\ manual'[m].pc = "done"

SuccessState(doc, result) ==
  /\ doc.agentProcessed = Val(TRUE)
  /\ doc.agentProcessing = Val(FALSE)
  /\ doc.agentResult = result
  /\ doc.agentProcessingError = Absent

\* C4: right after a successful attempt (tick or manual) the record has
\* agentProcessed = true, agentProcessing = false, agentResult present and
\* agentProcessingError absent, whatever its prior state.
C4_SuccessLeavesNoError ==
  [][/\ \A t \in Ticks :
          TickSucceeded(t)
            => SuccessState(store'[Candidate(t)], ticks[t].result)
     /\ \A m \in Manuals :
          ManualReturned(m)
            => SuccessState(store'[SessionId(m)], manual[m].result)]_vars

\* the step in which processSession, whose pipeline call threw, leaves its
\* catch block and rethrows
ManualPipelineFailed(m) ==
  /\ manual[m].pc = "catch"
  /\ manual[m].claimed
  /\ manual[m].error[1] \in PipelineErrors
  /\ manual'[m].pc = "done"

MissingCall(m) ==
  /\ manual[m].pc # "idle"
  /\ SessionId(m) \notin DOMAIN store

\* C9: processSession for an id that has no record (the lookup answers and
\* finds none) raises the not-found error, never invokes the pipeline, and
\* writes nothing: no record is created and no field of any record changes.
C9_MissingIdNoWrites ==
  /\ [](\A m \in Manuals :
          MissingCall(m)
            => /\ manual[m].pc \in {"get", "catch", "done"}
               /\ manual[m].result = Absent
               /\ ~manual[m].claimed
               /\ ~manual[m].recorded
               /\ manual[m].pc = "done" => manual[m].outcome = "raised"
               /\ manual[m].pc \in {"catch", "done"}
                    => manual[m].error \in
                         {Val(NotFoundMessage(SessionId(m))),
                          Val(StoreError)})
  /\ [][\A m \in Manuals :
          (MissingCall(m) /\ manual'[m] # manual[m])
            => /\ store' = store
               /\ (manual[m].pc = "get" /\ ~ManualGetRejected(m))
                    => manual'[m].error
                         = Val(NotFoundMessage(SessionId(m)))]_vars

C9_Witness ==
  \E m \in Manuals :
    /\ manual[m].pc = "done"
    /\ manual[m].sessionId = Val("S7")
    /\ manual[m].outcome = "raised"
    /\ manual[m].error = Val(NotFoundMessage("S7"))
    /\ "S7" \notin DOMAIN store

Range(seq) == {seq[i] : i \in 1..Len(seq)}

\* the step in which a tick records the failure of a pipeline call that threw
TickPipelineFailed(t) ==
  /\ TickRecordFailureOk(t)
  /\ ticks[t].claimed
  /\ ticks[t].error[1] \in PipelineErrors

\* C6: when the pipeline throws for a candidate of a tick (and the record is
\* still completed), the tick leaves the record with agentProcessingError =
\* the message, agentProcessing = false and agentProcessed not true, and the
\* next selection query returns the record again.
C6_FailedCandidateReselected ==
  [][\A t \in Ticks :
       (TickPipelineFailed(t) /\ store[Candidate(t)].status = "completed")
         => /\ store'[Candidate(t)].agentProcessingError = ticks[t].error
            /\ store'[Candidate(t)].agentProcessing = Val(FALSE)
            /\ store'[Candidate(t)].agentProcessed # Val(TRUE)
            /\ Candidate(t) \in Range(Selector(store'))]_vars

\* C7: a completed record whose agentProcessed field was never set is
\* returned by the selection query, and a tick whose pipeline call returns r
\* leaves the record with agentProcessed = true and agentResult = r.
C7_NeverSetIsSelected ==
  /\ [](\A id \in DOMAIN store :
          (/\ store[id].status = "completed"
           /\ store[id].analysisCompleted # Absent
           /\ store[id].agentProcessed = Absent)
            => id \in Range(Selector(store)))
  /\ [][\A t \in Ticks :
          TickSucceeded(t)
            => /\ store'[Candidate(t)].agentProcessed = Val(TRUE)
               /\ store'[Candidate(t)].agentResult = ticks[t].result]_vars

\* C8: every record of a tick's snapshot had status = completed and
\* agentProcessed not true when the selection query ran, and a tick writes
\* to records of its snapshot only.
C8_SelectedWereEligible ==
  [][\A t \in Ticks :
       /\ TickQueryOk(t)
            => \A id \in Range(ticks'[t].docs) :
                 /\ store[id].status = "completed"
                 /\ store[id].agentProcessed # Val(TRUE)
       /\ ticks'[t] # ticks[t]
            => \A id \in DOMAIN store :
                 store'[id] # store[id] => id \in Range(ticks[t].docs)]_vars

C8_Witness ==
  /\ ticks["t1"].pc = "pipeline"
  /\ ticks["t1"].docs = <<"S1">>
  /\ store["S2"].status = "completed"
  /\ store["S2"].agentProcessed = Val(TRUE)
  /\ store["S1"].agentProcessing = Val(TRUE)

\* a tick is about to record the failure of a pipeline call that threw for a
\* candidate that is not the last of its snapshot
FailedBeforeLast(t) ==
  /\ ticks[t].pc = "recordFailure"
  /\ ticks[t].claimed
  /\ ticks[t].error[1] \in PipelineErrors
  /\ ticks[t].i < Len(ticks[t].docs)

ContinuesWithNext(t) ==
  /\ ticks'[t].pc = "claim"
  /\ ticks'[t].i = ticks[t].i + 1
  /\ ticks'[t].docs = ticks[t].docs

\* C10 as stated: a candidate whose pipeline call throws does not abort the
\* tick; the tick goes on to claim the next candidate of its snapshot.
C10_FailureNeverAbortsTick ==
  [][\A t \in Ticks :
       (FailedBeforeLast(t) /\ ticks'[t] # ticks[t])
         => ContinuesWithNext(t)]_vars

\* C10 amended: after a candidate's pipeline call throws, the tick goes on
\* to claim the next candidate when the store accepts the failure write;
\* when the store rejects that write the tick ends, nothing is written and
\* the later candidates are left to the next tick.
C10_FailureAbortsOnlyOnRejectedWrite ==
  [][\A t \in Ticks :
       (FailedBeforeLast(t) /\ ticks'[t] # ticks[t])
         => IF TickRecordFailureOk(t)
            THEN /\ ContinuesWithNext(t)
                 /\ store'[Candidate(t)].agentProcessingError = ticks[t].error
            ELSE /\ store' = store
                 /\ ticks'[t] = IdleTick]_vars

C10_Witness ==
  \E t \in Ticks :
    /\ ticks[t].pc = "pipeline"
    /\ ticks[t].i = 2
    /\ store[ticks[t].docs[1]].agentProcessingError = Val("rate limited")
    /\ store[ticks[t].docs[1]].agentProcessing = Val(FALSE)

\* a tick has claimed id and handed it to the pipeline, and has not yet
\* written the outcome
Attempted(id) ==
  \E t \in Ticks : ticks[t].claimed /\ Candidate(t) = id

\* C3: while the monitor runs, every record with status = completed and
\* agentProcessed absent or false is eventually claimed and passed to the
\* pipeline by some tick, however many other records are eligible and
\* whatever the outcomes of their attempts.
C3_EveryEligibleAttempted ==
  \A id \in BacklogIds :
    (/\ store[id].status = "completed"
     /\ store[id].agentProcessed # Val(TRUE)) ~> Attempted(id)

(***************************************************************************)
(* The scheduler loop: C11, C13 .. C16.                                    *)
(***************************************************************************)
\* C11: a tick never lets an error escape to the scheduler: whichever of the
\* query, a store update or the pipeline fails, checkSessions ends normally
\* and leaves isRunning, intervalId and the active interval as they were;
\* the monitor stops running only in a stop().
C11_TickNeverEscapes ==
  [][/\ \A t \in Ticks : ticks'[t].pc # "rejected"
     /\ lastCall' = lastCall => UNCHANGED <<isRunning, intervalId, timers>>
     /\ (isRunning /\ ~isRunning') => lastCall' = "stopped"]_vars

\* the only tick has ended while its claim is still on the record (the
\* failure write was rejected), and the interval is still active
C11_Witness ==
  /\ isRunning
  /\ timers # {}
  /\ \A t \in Ticks : ticks[t].pc = "idle"
  /\ store["S1"].agentProcessing = Val(TRUE)

\* C12: the manual trigger raises the original error of every kind of
\* failure (not found, not completed, pipeline threw, store call failed):
\* the catch block is entered with that error, and both outcomes of its
\* recording write (accepted, rejected) end the call raising that same error.
C12_OriginalErrorRethrown ==
  [][\A m \in Manuals :
       /\ (manual[m].pc = "get" /\ manual'[m].pc = "catch")
            => manual'[m].error \in
                 {Val(StoreError), Val(NotFoundMessage(SessionId(m)))} \cup
                 {Val(NotCompletedMessage(SessionId(m), store[id].status)) :
                    id \in DOMAIN store \cap {SessionId(m)}}
       /\ (manual[m].pc \in {"claim", "recordSuccess"}
             /\ manual'[m].pc = "catch")
            => manual'[m].error = Val(StoreError)
       /\ (manual[m].pc = "pipeline" /\ manual'[m].pc = "catch")
            => manual'[m].error \in {Val(e) : e \in PipelineErrors}
       /\ (manual[m].pc = "catch" /\ manual'[m] # manual[m])
            => /\ manual'[m].pc = "done"
               /\ manual'[m].outcome = "raised"
               /\ manual'[m].error = manual[m].error]_vars

\* the pipeline threw, the recording write was rejected, and the call has
\* raised the error of the pipeline
C12_Witness ==
  \E m \in Manuals :
    /\ manual[m].pc = "done"
    /\ manual[m].outcome = "raised"
    /\ ~manual[m].recorded
    /\ manual[m].error \in {Val(e) : e \in PipelineErrors}

\* C13: start() while the monitor is running changes nothing: it begins no
\* tick and sets no second interval; at most one interval is ever active,
\* and while running it is the one intervalId holds.
C13_StartWhileRunningIsNoOp ==
  /\ [][(isRunning /\ Start)
          => UNCHANGED <<store, ticks, manual, isRunning, intervalId,
                         timers>>]_vars
  /\ [](Cardinality(timers) <= 1)
  /\ [](isRunning => timers = {intervalId[1]})

\* start() has been called on the running monitor
C13_Witness ==
  /\ lastCall = "already running"
  /\ isRunning
  /\ Cardinality(timers) = 1

\* C14: stop() while the monitor is stopped does not raise and leaves
\* isRunning, intervalId, the intervals, the ticks and every record as they
\* were.
C14_StopWhileStoppedIsNoOp ==
  [][(~isRunning /\ Stop)
       => /\ lastCall' # "raised"
          /\ UNCHANGED <<store, ticks, manual, isRunning, intervalId,
                         timers>>]_vars

\* stop() has been called on the stopped monitor
C14_Witness ==
  /\ lastCall = "not running"
  /\ ~isRunning
  /\ intervalId = Absent

\* the ticks that are in flight
InFlight(tk) == {t \in Ticks : tk[t].pc # "idle"}

\* C15: start() on the stopped monitor makes it running, begins exactly one
\* tick and sets exactly one interval; stop() on the running monitor makes
\* it stopped and clears the interval; a tick begins only in a step that
\* leaves the monitor running, so none begins between stop() and start().
C15_StartStopTransitions ==
  [][/\ (~isRunning /\ Start)
          => /\ isRunning'
             /\ Cardinality(timers') = 1
             /\ intervalId' # Absent /\ timers' = {intervalId'[1]}
             /\ Cardinality(InFlight(ticks') \ InFlight(ticks)) = 1
     /\ (isRunning /\ Stop)
          => /\ ~isRunning'
             /\ intervalId' = Absent
             /\ timers' = {}
     /\ \A t \in Ticks :
          (ticks[t].pc = "idle" /\ ticks'[t].pc # "idle") => isRunning']_vars

\* the monitor has been started and stopped; the tick start() began is
\* still in flight
C15_Witness ==
  /\ lastCall = "stopped"
  /\ ~isRunning
  /\ timers = {}
  /\ InFlight(ticks) # {}

PipelineFields == {"status", "analysisCompleted"}

\* C17: no step of a tick or of the manual trigger creates or removes a
\* record or changes status or any other field than the agent fields; a
\* value the analysis pipeline wrote in between is still there after it.
C17_MonitorWritesOnlyAgentFields ==
  [][(ticks' # ticks \/ manual' # manual)
       => /\ DOMAIN store' = DOMAIN store
          /\ \A id \in DOMAIN store : \A f \in PipelineFields :
               store'[id][f] = store[id][f]]_vars

\* a tick has written its claim and its outcome to a record whose status
\* the analysis pipeline has changed since the tick selected it
C17_Witness ==
  /\ store["S1"].status = "failed"
  /\ store["S1"].agentProcessing = Val(FALSE)
  /\ store["S1"].agentProcessingError # Absent
  /\ \E t \in Ticks : ticks[t].pc = "recordSuccess"

\* the record holds the terminal fields of a success write of `result`
SuccessRecorded(doc, result) ==
  /\ doc.agentProcessed = Val(TRUE)
  /\ doc.agentProcessing = Val(FALSE)
  /\ doc.agentResult = result
  /\ doc.agentProcessingCompleted # Absent

\* the record holds the terminal fields of a failure write of `error`
FailureRecorded(doc, error) ==
  /\ doc.agentProcessing = Val(FALSE)
  /\ doc.agentProcessingError = error
  /\ doc.agentProcessingFailed # Absent

\* C18 as stated: a success write on a record that holds the terminal
\* fields of a success write with the same result, and a failure write on a
\* record that holds those of a failure write with the same error, leave
\* the record as it was.
C18_RepeatedOutcomeWriteChangesNothing ==
  [][\A t \in Ticks :
       /\ (TickRecordSuccessOk(t)
             /\ SuccessRecorded(store[Candidate(t)], ticks[t].result))
            => store'[Candidate(t)] = store[Candidate(t)]
       /\ (TickRecordFailureOk(t)
             /\ FailureRecorded(store[Candidate(t)], ticks[t].error))
            => store'[Candidate(t)] = store[Candidate(t)]]_vars

\* C18 amended: the repeated write changes only the time stamp of the
\* outcome, which becomes the time of the repeated write.
C18_RepeatedOutcomeWriteRestamps ==
  [][\A t \in Ticks :
       /\ (TickRecordSuccessOk(t)
             /\ SuccessRecorded(store[Candidate(t)], ticks[t].result))
            => store'[Candidate(t)] =
                 [store[Candidate(t)] EXCEPT
                    !.agentProcessingCompleted = Val(now)]
       /\ (TickRecordFailureOk(t)
             /\ FailureRecorded(store[Candidate(t)], ticks[t].error))
            => store'[Candidate(t)] =
                 [store[Candidate(t)] EXCEPT
                    !.agentProcessingFailed = Val(now)]]_vars

\* a tick is about to repeat, at a later time, the success write another
\* tick has made with the same result
C18_Witness ==
  \E t \in Ticks :
    /\ ticks[t].pc = "recordSuccess"
    /\ SuccessRecorded(store[Candidate(t)], ticks[t].result)
    /\ store[Candidate(t)].agentProcessingCompleted # Val(now)

(***************************************************************************)
(* The agent workflow: C19, C20.                                           *)
(***************************************************************************)
\* the keywords of HIGH_PRIORITY_KEYWORDS: the items between the commas; no
\* keyword is configured when the variable is not set or holds no item
ConfiguredKeywords(env) ==
  IF env = Absent THEN {}
  ELSE {k \in Strings(KeywordChars, MaxKeywords) :
          /\ k # <<>>
          /\ \E i \in 1..Len(Split(env[1])) : Split(env[1])[i] = k}

\* the session reaches the threshold or its summary contains a keyword
ActionWarranted(a) ==
  \/ a.frictionPoints >= Threshold(a.threshold)
  \/ \E k \in ConfiguredKeywords(a.keywords) :
       Includes(ToLowerCase(a.behaviorSummary), ToLowerCase(k))

\* C19: the workflow requires action exactly when the number of friction
\* points reaches FRICTION_THRESHOLD (default 3) or the behaviour summary
\* contains a configured keyword, and it has created an issue when it
\* returns exactly in that case; with no keyword configured, a session below
\* the threshold requires no action and gets no issue.
C19_ActionExactlyWhenWarranted ==
  /\ agent.analysis # Absent
       => (agent.analysis[1].actionRequired <=> ActionWarranted(agent))
  /\ agent.pc = "returned"
       => (agent.issues = 1 <=> ActionWarranted(agent))
  /\ (agent.pc = "returned" /\ ~ActionWarranted(agent)) => agent.issues = 0

\* C20: the workflow never returns a result without having sent exactly one
\* Slack message in that run, whether or not action was required and an
\* issue was created; a run sends at most one message.
C20_ReturnsOnlyAfterOneSlackMessage ==
  /\ agent.pc = "returned" => agent.messages = 1
  /\ agent.messages <= 1

\* the workflow has returned for a session that required no action: no
\* issue was created and the message was sent
C20_Witness ==
  /\ agent.pc = "returned"
  /\ ~agent.analysis[1].actionRequired
  /\ agent.issues = 0
  /\ agent.messages = 1

(***************************************************************************)
(* The attempt of a tick: C21, C22, C27.                                   *)
(***************************************************************************)
\* C21: a tick hands a candidate to the pipeline only when the status of
\* the record is still completed at that moment.
C21_PipelineOnlyForCompleted ==
  [][\A t \in Ticks :
       (ticks[t].pc # "pipeline" /\ ticks'[t].pc = "pipeline")
         => store[Candidate(t)].status = "completed"]_vars

\* C22: a record that no attempt holds a claim on does not have
\* agentProcessing = true, and a record an attempt holds a claim on has
\* agentProcessing = true, whatever the outcome of the attempts, rejected
\* store writes included.
C22_ClaimReleasedWhenNoAttempt ==
  \A id \in DOMAIN store :
    IF Holders(id) = {}
    THEN store[id].agentProcessing # Val(TRUE)
    ELSE store[id].agentProcessing = Val(TRUE)

\* C27: a tick hands a candidate to the pipeline only in the step in which
\* the store accepts its claim write (agentProcessing = true and
\* agentProcessingStarted are then on the record); when the store rejects
\* the claim write the tick goes to its failure write and from there to the
\* next candidate or to the end, never to the pipeline for that candidate.
C27_PipelineOnlyAfterClaim ==
  [][\A t \in Ticks :
       /\ (ticks[t].pc # "pipeline" /\ ticks'[t].pc = "pipeline")
            => /\ ticks[t].pc = "claim"
               /\ store'[Candidate(t)].agentProcessing = Val(TRUE)
               /\ store'[Candidate(t)].agentProcessingStarted = Val(now)
       /\ TickClaimRejected(t)
            => /\ ticks'[t].pc = "recordFailure"
               /\ ~ticks'[t].claimed
               /\ store' = store
       /\ (ticks[t].pc = "recordFailure" /\ ticks'[t] # ticks[t])
            => \/ ticks'[t].pc = "idle"
               \/ ticks'[t].pc = "claim" /\ ticks'[t].i = ticks[t].i + 1]_vars

\* the store has rejected the claim write of a tick, which is at its
\* failure write without having called the pipeline
C27_Witness ==
  \E t \in Ticks :
    /\ ticks[t].pc = "recordFailure"
    /\ ~ticks[t].claimed
    /\ ticks[t].error = Val(StoreError)
    /\ ticks[t].result = Absent

(***************************************************************************)
(* agentProcessed and the manual trigger: C28, C30.                        *)
(***************************************************************************)
\* C28: agentProcessed becomes true only in a success write of a tick or
\* of the manual trigger, which also stores agentResult; once true it is
\* never set back or removed by any step.
C28_ProcessedMonotone ==
  [][\A id \in DOMAIN store :
       /\ id \in DOMAIN store'
       /\ (store[id].agentProcessed # Val(TRUE)
             /\ store'[id].agentProcessed = Val(TRUE))
            => /\ \/ \E t \in Ticks :
                       TickRecordSuccessOk(t) /\ Candidate(t) = id
                  \/ \E m \in Manuals :
                       ManualRecordSuccessOk(m) /\ SessionId(m) = id
               /\ store'[id].agentResult # Absent
       /\ store[id].agentProcessed = Val(TRUE)
            => store'[id].agentProcessed = Val(TRUE)]_vars

\* a manual call has made its failure write on a record that is processed
C28_Witness ==
  /\ store["S1"].agentProcessed = Val(TRUE)
  /\ store["S1"].agentProcessingError # Absent
  /\ \E m \in Manuals :
       /\ manual[m].pc = "done"
       /\ manual[m].recorded
       /\ SessionId(m) = "S1"

\* a manual call that found its record with a status other than completed
NotCompletedCall(m) ==
  /\ manual[m].pc \in {"catch", "done"}
  /\ manual[m].error \in
       {Val(NotCompletedMessage(SessionId(m), status)) :
          status \in {"uploaded", "processing", "failed"}}

\* C30: a manual call that finds its record not completed goes to the catch
\* block without a claim write and without the pipeline; its only write is
\* the failure write, which leaves every field but agentProcessing,
\* agentProcessingError and agentProcessingFailed as it was; the call ends
\* raising the error.
C30_NotCompletedOnlyFailureWrite ==
  /\ [](\A m \in Manuals :
          NotCompletedCall(m)
            => /\ ~manual[m].claimed
               /\ manual[m].result = Absent
               /\ manual[m].pc = "done" => manual[m].outcome = "raised")
  /\ [][\A m \in Manuals :
          /\ (manual[m].pc = "get" /\ ManualGetOk(m)
                /\ SessionId(m) \in DOMAIN store
                /\ store[SessionId(m)].status # "completed")
               => /\ manual'[m].pc = "catch"
                  /\ manual'[m].error =
                       Val(NotCompletedMessage(SessionId(m),
                                               store[SessionId(m)].status))
          /\ (NotCompletedCall(m) /\ manual'[m] # manual[m]
                /\ manual[m].pc = "catch")
               => \/ store' = store
                  \/ store' = [store EXCEPT ![SessionId(m)] =
                        [@ EXCEPT
                           !.agentProcessing = Val(FALSE),
                           !.agentProcessingError = manual[m].error,
                           !.agentProcessingFailed = Val(now)]]]_vars

\* a manual call on a record that was not completed has made its failure
\* write and raised the error
C30_Witness ==
  \E m \in Manuals :
    /\ NotCompletedCall(m)
    /\ manual[m].pc = "done"
    /\ manual[m].recorded
    /\ store[SessionId(m)].agentProcessingError = manual[m].error

(***************************************************************************)
(* Scheduling and selection order: C24, C25, C29.                          *)
(***************************************************************************)
\* no claim write has ever been made on the record
NeverAttempted(doc) == doc.agentProcessingStarted = Absent

\* C24: in the snapshot of a selection query, an eligible record that has
\* never been attempted comes before every record whose attempt failed.
C24_NeverAttemptedFirst ==
  \A t \in Ticks :
    (ticks[t].pc = "claim" /\ ticks[t].i = 1)
      => \A a \in DOMAIN store :
           (Matches(store[a]) /\ NeverAttempted(store[a]))
             => \A j \in 1..Len(ticks[t].docs) :
                  store[ticks[t].docs[j]].agentProcessingFailed # Absent
                    => \E k \in 1..(j - 1) : ticks[t].docs[k] = a

\* the ticks of the instance that are between the claim write and the
\* outcome write of a candidate
Outstanding == {t \in Ticks : ticks[t].claimed}

\* C25: one monitor instance has at most one candidate between claim and
\* outcome, and at most one pipeline call outstanding, at any moment.
C25_OneCandidateAtATime ==
  /\ Cardinality(Outstanding) <= 1
  /\ Cardinality({t \in Ticks : ticks[t].pc = "pipeline"}) <= 1

\* C29: at most one interval is active; one is active exactly when
\* isRunning is true, and isRunning is true exactly when intervalId is set,
\* to the handle of that interval; start() after stop() leaves the monitor
\* running with one interval.
C29_OneTimerIffRunning ==
  /\ [](/\ Cardinality(timers) <= 1
        /\ Cardinality(timers) = 1 <=> isRunning
        /\ isRunning <=> intervalId # Absent
        /\ intervalId # Absent => timers = {intervalId[1]})
  /\ [][(lastCall = "stopped" /\ Start)
          => isRunning' /\ Cardinality(timers') = 1]_vars

\* the monitor runs with one interval, and a tick has begun after the
\* record was processed
C29_Witness ==
  /\ isRunning
  /\ lastCall = "started"
  /\ Cardinality(timers) = 1
  /\ store["S1"].agentProcessed = Val(TRUE)
  /\ \E t \in Ticks : ticks[t].pc = "query"

(***************************************************************************)
(* Crashes and side effects: C23, C26.                                     *)
(***************************************************************************)
\* the record has agentProcessing = true and no attempt holds the claim
Stuck(id) ==
  /\ store[id].agentProcessing = Val(TRUE)
  /\ Holders(id) = {}

C26_NoDuplicateSideEffects ==
  /\ agent.issuesCreated <= 1
  /\ agent.messagesSent <= 1

TypeOK ==
  /\ \A t \in Ticks : ticks[t].pc \in
       {"idle", "query", "claim", "pipeline", "recordSuccess", "recordFailure"}
  /\ \A m \in Manuals : manual[m].pc \in
       {"idle", "get", "claim", "pipeline", "recordSuccess", "catch", "done"}
  /\ now \in 0..MaxNow
  /\ isRunning \in BOOLEAN
  /\ intervalId \in {Absent} \cup {Val(h) : h \in 1..MaxTimers}
  /\ timers \subseteq 1..MaxTimers
  /\ lastCall \in
       {"none", "started", "already running", "stopped", "not running"}
  /\ agent.pc \in {"idle", "fetch", "analyze", "store", "compare", "issue",
                   "slack", "returned", "threw"}
====
